---- MODULE Spec2Model ----
(***************************************************************************)
(* Model of the battery-log analysis in parsing.py and generate_report.py. *)
(*                                                                         *)
(* Conventions.                                                            *)
(*  - Text is a sequence of one-character strings, so that startswith()    *)
(*    and isdigit() are computed and not assumed.                          *)
(*  - Timestamps and timedeltas are integers in milliseconds (Python's     *)
(*    datetime/timedelta are exact integers of microseconds).              *)
(*  - power_mah and duration_s are exact fixed-point integers (duration_s  *)
(*    counts milliseconds: total_seconds() times 1000); float rounding is  *)
(*    not modelled.                                                        *)
(*  - A DataFrame is the sequence of its rows; a row carries its index     *)
(*    label in the field "name" (pandas: row.name).                        *)
(***************************************************************************)
EXTENDS Integers, Sequences, FiniteSets, TLC

VARIABLES pc, n_dirs, app_map, frames, starts, ends, pos,
          wakelock_periods, used_end_indices, total_longwake_df,
          battery_df, power_data, total_power_df, raised,
          time_str, start_time, delta, current_time,
          app_wakelocks, combined_df,
          content, line_no, in_power_section, consumers

\* the locals of one line of parse_battery_history (lines 109-115)
time_vars == <<time_str, start_time, delta, current_time>>

\* the locals of create_report (lines 106-126)
report_vars == <<app_wakelocks, combined_df>>

\* the locals of parse_power_consumers (lines 34-71)
scan_vars == <<content, line_no, in_power_section, consumers>>

\* the locals of process_all_logs up to line 179
power_vars == <<battery_df, power_data, total_power_df, raised>>

vars == <<pc, n_dirs, app_map, frames, starts, ends, pos,
          wakelock_periods, used_end_indices, total_longwake_df,
          battery_df, power_data, total_power_df, raised,
          time_str, start_time, delta, current_time,
          app_wakelocks, combined_df,
          content, line_no, in_power_section, consumers>>

\* an optional value: None, or Some(x)
None == <<>>
Some(x) == <<x>>

\* ------------------------------------------------------------------ bounds
MaxSnaps == 2
\* SpecWake: two owner-ids, at most MaxEvents longwake edges in the series,
\* at offsets 1s..MaxTime s
MaxEvents == 3
MaxTime == 2
\* SpecWakeDeep: one owner-id, longer series
DeepEvents == 4
DeepTime == 4
\* SpecPower: at most MaxSamples power samples in the series, values 1..MaxPower
MaxSamples == 2
MaxPower == 2
\* SpecScan: a batterystats.txt of at most MaxLines lines
MaxLines == 5
\* SpecTime: each unit of an offset token is absent or has a value 0..MaxValue
MaxValue == 2
\* SpecReport: wakelock totals of 1..MaxDur seconds
MaxDur == 2

\* ------------------------------------------------------------ text helpers
U0A == <<"u", "0", "a">>
DigitChars == {"0", "1", "2", "3", "4", "5", "6", "7", "8", "9"}
DigitOf(d) == CASE d = 0 -> "0" [] d = 1 -> "1" [] d = 2 -> "2" [] d = 3 -> "3"
                [] d = 4 -> "4" [] d = 5 -> "5" [] d = 6 -> "6" [] d = 7 -> "7"
                [] d = 8 -> "8" [] OTHER -> "9"

RECURSIVE Str(_)
\* str(n) of a non-negative int, as characters
Str(n) == IF n < 10 THEN <<DigitOf(n)>> ELSE Str(n \div 10) \o <<DigitOf(n % 10)>>

startswith_u0a(name) == Len(name) >= 3 /\ SubSeq(name, 1, 3) = U0A
isdigit(name) == Len(name) > 0 /\ \A i \in 1..Len(name) : name[i] \in DigitChars

SeqSum(s, f(_)) ==
    LET RECURSIVE go(_)
        go(i) == IF i = 0 THEN 0 ELSE go(i - 1) + f(s[i])
    IN go(Len(s))

\* --------------------------------------------------------------- parse_time
\* A relative-offset token is a sequence of parts <<digits value, unit>>:
\* <<<<1,"h">>, <<30,"s">>>> is the text "1h30s" (a leading '+' is not a digit
\* or unit letter and plays no part in parse_time).
\* re.search(r'(\d+)X', time_str): the value of the first part whose unit text
\* begins with the letter X directly after the digits; None without a match.
\* For X = 'm' that is a part "m" or "ms"; for X = 's' only a part "s" (in
\* "ms" the letter before 's' is 'm', not a digit); r'(\d+)ms' needs unit "ms".
FirstMatch(tok, unitset) ==
    LET idx == {i \in 1..Len(tok) : tok[i][2] \in unitset}
    IN IF idx = {} THEN None
       ELSE Some(tok[CHOOSE i \in idx : \A j \in idx : i <= j][1])

\* 'X in time_str' for the letters of each unit
HasLetter(tok, unitset) == \E i \in 1..Len(tok) : tok[i][2] \in unitset

Field(tok, inset, matchset) ==
    IF HasLetter(tok, inset) /\ FirstMatch(tok, matchset) # None
    THEN FirstMatch(tok, matchset)[1] ELSE 0

parse_time(tok) ==
    LET h  == Field(tok, {"h"}, {"h"})
        m  == Field(tok, {"m", "ms"}, {"m", "ms"})
        s  == Field(tok, {"s", "ms"}, {"s"})
        ms == Field(tok, {"ms"}, {"ms"})
    IN h * 3600000 + m * 60000 + s * 1000 + ms

\* ---------------------------------------------------- parse_battery_history
\* A batterystats.txt as read by parse_battery_history:
\*   reset : None (unreadable file or no RESET:TIME marker), or Some(start_time)
\*   lines : the lines; anchor = header_anchor_regex matches, plus = the text
\*           before the anchor starts with '+', offset = that text as a token,
\*           edges = the longwake matches after the anchor, in order.
RECURSIVE LineEvents(_, _)
LineEvents(at, edges) ==
    IF edges = <<>> THEN <<>>
    ELSE <<[timestamp |-> at,
            status |-> IF Head(edges).sign = "+" THEN "start" ELSE "end",
            uid |-> Head(edges).uid,
            tag |-> Head(edges).tag]>> \o LineEvents(at, Tail(edges))

RECURSIVE HistoryEvents(_, _)
HistoryEvents(epoch, lines) ==
    IF lines = <<>> THEN <<>>
    ELSE LET line == Head(lines)
             rest == HistoryEvents(epoch, Tail(lines))
         IN IF ~line.anchor THEN rest
            ELSE IF ~line.plus THEN rest
            ELSE LineEvents(epoch + parse_time(line.offset), line.edges) \o rest

\* pd.DataFrame(events): rows with a RangeIndex 0..n-1
WithRangeIndex(events) ==
    [i \in 1..Len(events) |->
        [timestamp |-> events[i].timestamp, status |-> events[i].status,
         uid |-> events[i].uid, tag |-> events[i].tag, name |-> i - 1]]

parse_battery_history(file) ==
    IF file.reset = None THEN <<>>
    ELSE WithRangeIndex(HistoryEvents(file.reset[1], file.lines))

\* -------------------------------------------------- get_package_map_from_log
\* packages.txt: readable = FALSE (missing or unreadable), or its lines; a line
\* either matches package_regex (match = TRUE, with package_name and user_id)
\* or not.
RECURSIVE PackageMapOf(_, _)
PackageMapOf(lines, package_map) ==
    IF lines = <<>> THEN package_map
    ELSE LET line == Head(lines)
         IN IF line.match /\ line.user_id >= 10000
            THEN LET uid_str == U0A \o Str(line.user_id - 10000)
                 IN PackageMapOf(Tail(lines),
                        [k \in DOMAIN package_map \cup {uid_str} |->
                            IF k = uid_str THEN line.package_name ELSE package_map[k]])
            ELSE PackageMapOf(Tail(lines), package_map)

EmptyMap == [k \in {} |-> <<>>]

get_package_map_from_log(packages_file) ==
    IF ~packages_file.readable THEN EmptyMap
    ELSE PackageMapOf(packages_file.lines, EmptyMap)

\* ------------------------------------------------------------ input alphabet
U0A1 == U0A \o <<"1">>
U0A2 == U0A \o <<"2">>
ComA == <<"c", "o", "m", ".", "a">>
SystemOther == <<"S", "y", "s", "t", "e", "m", "/", "O", "t", "h", "e", "r">>

PkgLine(p, u) == [match |-> TRUE, package_name |-> p, user_id |-> u]

NoPackages == [readable |-> FALSE, lines |-> <<>>]
Packages(ls) == [readable |-> TRUE, lines |-> ls]
\* packages.txt of the latest snapshot: SpecWake maps one of its two owner-ids,
\* SpecWakeDeep also runs without a package listing
WakePackageFiles == {Packages(<<PkgLine(ComA, 10001)>>)}
DeepPackageFiles == {NoPackages, Packages(<<PkgLine(ComA, 10001)>>)}

Uids == {U0A1, U0A2}
TagNet == <<"n", "e", "t">>
Tags == {TagNet}
Edges(uids) == [sign : {"+", "-"}, uid : uids, tag : Tags]
OffsetTokens(t) == {<<<<v, "s">>>> : v \in 1..t}
HistoryLines(uids, t) ==
    [anchor : {TRUE}, plus : {TRUE}, offset : OffsetTokens(t),
     edges : {<<e>> : e \in Edges(uids)}]

\* the log is written in time order: offsets do not decrease down the file
Chronological(lines) ==
    \A i \in 1..(Len(lines) - 1) :
        parse_time(lines[i].offset) <= parse_time(lines[i + 1].offset)

HistoryFiles(pool, k) ==
    {[reset |-> None, lines |-> <<>>]} \cup
    {[reset |-> Some(0), lines |-> ls] :
        ls \in {l \in UNION {[1..n -> pool] : n \in 0..k} : Chronological(l)}}

\* ------------------------------------------- process_all_logs, wakelock stage
EventCount(fs) == SeqSum(fs, Len)

RECURSIVE Concat(_, _)
\* pd.concat(frames): rows in frame order, each keeping its own index label;
\* src (the ordinal of the snapshot a row came from) is a ghost field.
Concat(fs, k) ==
    IF k > Len(fs) THEN <<>>
    ELSE [i \in 1..Len(fs[k]) |->
            [timestamp |-> fs[k][i].timestamp, status |-> fs[k][i].status,
             uid |-> fs[k][i].uid, tag |-> fs[k][i].tag,
             name |-> fs[k][i].name, src |-> k]] \o Concat(fs, k + 1)

Range(s) == {s[i] : i \in 1..Len(s)}

RECURSIVE SortedOrders(_, _, _)
\* every arrangement of the rows S that sort_values (quicksort: not stable)
\* may return: ordered by key, rows with equal keys in any order.
\* Before(a, b): a's key does not come after b's.
SortedOrders(S, key(_), asc) ==
    IF S = {} THEN {<<>>}
    ELSE LET firsts == {r \in S : \A q \in S :
                            IF asc THEN key(r) <= key(q) ELSE key(r) >= key(q)}
         IN UNION {{<<r>> \o rest : rest \in SortedOrders(S \ {r}, key, asc)} : r \in firsts}

TimestampOf(r) == r.timestamp
DurationOf(r) == r.duration_s

Select(s, status) ==
    LET RECURSIVE go(_)
        go(i) == IF i > Len(s) THEN <<>>
                 ELSE IF s[i].status = status THEN <<s[i]>> \o go(i + 1) ELSE go(i + 1)
    IN go(1)

is_potential_end_ge(e, start_event, used) ==
    /\ e.uid = start_event.uid
    /\ e.tag = start_event.tag
    /\ e.timestamp >= start_event.timestamp
    /\ e.name \notin used

\* the row mask of line 193
is_potential_end(e, start_event, used) ==
    /\ e.uid = start_event.uid
    /\ e.tag = start_event.tag
    /\ e.timestamp > start_event.timestamp
    /\ e.name \notin used

\* ends[mask], in row order
potential_ends(es, start_event, used) ==
    LET RECURSIVE go(_)
        go(i) == IF i > Len(es) THEN <<>>
                 ELSE IF is_potential_end(es[i], start_event, used)
                      THEN <<es[i]>> \o go(i + 1) ELSE go(i + 1)
    IN go(1)

add_used_forgets(used, end_event) == used

\* used_end_indices.add(end_event.name), line 199
add_used(used, end_event) == used \cup {end_event.name}

\* The state at line 181 of a run over n_dirs snapshots whose battery.txt all
\* read level: 100 and whose batterystats.txt have no power section.
InitWakeFrom(package_files) ==
    /\ pc = "history"
    /\ n_dirs \in 1..MaxSnaps
    /\ app_map \in {get_package_map_from_log(f) : f \in package_files}
    /\ frames = <<>>
    /\ starts = <<>>
    /\ ends = <<>>
    /\ pos = 0
    /\ wakelock_periods = <<>>
    /\ used_end_indices = {}
    /\ total_longwake_df = <<>>
    /\ battery_df = [i \in 1..n_dirs |-> [timestamp |-> i, level |-> 100]]
    /\ power_data = <<>>
    /\ total_power_df = <<>>
    /\ raised = None
    /\ time_str = <<>>
    /\ start_time = 0
    /\ delta = None
    /\ current_time = None
    /\ app_wakelocks = <<>>
    /\ combined_df = <<>>
    /\ content = <<>>
    /\ line_no = 0
    /\ in_power_section = FALSE
    /\ consumers = <<>>

InitWake == InitWakeFrom(WakePackageFiles)

InitWakeDeep == InitWakeFrom(DeepPackageFiles)

\* one element of the list comprehension at line 181
ParseHistoryFrom(pool, cap) ==
    /\ pc = "history"
    /\ Len(frames) < n_dirs
    /\ \E file \in HistoryFiles(pool, cap - EventCount(frames)) :
          frames' = Append(frames, parse_battery_history(file))
    /\ UNCHANGED <<pc, n_dirs, app_map, starts, ends, pos,
                   wakelock_periods, used_end_indices, total_longwake_df>>
    /\ UNCHANGED <<power_vars, time_vars, report_vars, scan_vars>>

ParseHistory == ParseHistoryFrom(HistoryLines(Uids, MaxTime), MaxEvents)

ParseHistoryDeep == ParseHistoryFrom(HistoryLines({U0A1}, DeepTime), DeepEvents)

\* lines 181-187: concat, the empty check, sort_values, the start/end split
ConcatSort ==
    /\ pc = "history"
    /\ Len(frames) = n_dirs
    /\ LET df == Concat(frames, 1)
       IN IF df = <<>>
          THEN /\ pc' = "done"
               /\ UNCHANGED <<starts, ends>>
          ELSE /\ \E all_events \in SortedOrders(Range(df), TimestampOf, TRUE) :
                    /\ starts' = Select(all_events, "start")
                    /\ ends' = Select(all_events, "end")
               /\ pc' = "match"
    /\ frames' = <<>>
    /\ pos' = 1
    /\ UNCHANGED <<n_dirs, app_map, wakelock_periods, used_end_indices,
                   total_longwake_df>>
    /\ UNCHANGED <<power_vars, time_vars, report_vars, scan_vars>>

\* one iteration of the loop at lines 192-199; start_event and end_event are
\* ghost fields of the appended period
MatchStep ==
    /\ pc = "match"
    /\ pos <= Len(starts)
    /\ LET start_event == starts[pos]
           cands == potential_ends(ends, start_event, used_end_indices)
       IN IF cands # <<>>
          THEN LET end_event == cands[1]
                   duration == end_event.timestamp - start_event.timestamp
               IN IF duration >= 0
                  THEN /\ wakelock_periods' = Append(wakelock_periods,
                              [uid |-> start_event.uid, tag |-> start_event.tag,
                               duration_s |-> duration,
                               start_event |-> start_event, end_event |-> end_event])
                       /\ used_end_indices' = add_used(used_end_indices, end_event)
                  ELSE UNCHANGED <<wakelock_periods, used_end_indices>>
          ELSE UNCHANGED <<wakelock_periods, used_end_indices>>
    /\ pos' = pos + 1
    /\ UNCHANGED <<pc, n_dirs, app_map, frames, starts, ends,
                   total_longwake_df>>
    /\ UNCHANGED <<power_vars, time_vars, report_vars, scan_vars>>

\* groupby(['uid','tag'])['duration_s'].sum()
GroupKeys(periods) == {<<p.uid, p.tag>> : p \in Range(periods)}
GroupSum(periods, k) ==
    LET ofk(p) == IF <<p.uid, p.tag>> = k THEN p.duration_s ELSE 0
    IN SeqSum(periods, ofk)

\* the app_name column, lines 208-211
app_name(map, uid) ==
    IF DOMAIN map # {}
    THEN IF uid \in DOMAIN map THEN map[uid] ELSE SystemOther
    ELSE SystemOther

\* lines 201-213
Summarize ==
    /\ pc = "match"
    /\ pos > Len(starts)
    /\ IF wakelock_periods = <<>>
       THEN total_longwake_df' = <<>>
       ELSE LET grouped == {[uid |-> k[1], tag |-> k[2],
                             duration_s |-> GroupSum(wakelock_periods, k)] :
                                k \in GroupKeys(wakelock_periods)}
            IN \E sorted \in SortedOrders(grouped, DurationOf, FALSE) :
                 total_longwake_df' =
                    [i \in 1..Len(sorted) |->
                        [uid |-> sorted[i].uid, tag |-> sorted[i].tag,
                         duration_s |-> sorted[i].duration_s,
                         app_name |-> app_name(app_map, sorted[i].uid)]]
    /\ pc' = "done"
    /\ UNCHANGED <<n_dirs, app_map, frames, starts, ends, pos,
                   wakelock_periods, used_end_indices>>
    /\ UNCHANGED <<power_vars, time_vars, report_vars, scan_vars>>

NextWake == ParseHistory \/ ConcatSort \/ MatchStep \/ Summarize

SpecWake == InitWake /\ [][NextWake]_vars

NextWakeDeep == ParseHistoryDeep \/ ConcatSort \/ MatchStep \/ Summarize

SpecWakeDeep == InitWakeDeep /\ [][NextWakeDeep]_vars

\* ----------------------------------------------------- parse_battery_level
\* battery.txt: unreadable, or readable with the first "level: <digits>" match
\* (None when no line matches)
parse_battery_level(file) ==
    IF ~file.readable THEN None ELSE file.level

\* ---------------------------------------------------- parse_power_consumers
\* A line of batterystats.txt as the scan of lines 44-69 sees it:
\*   marker  : 'Estimated power use (mAh)' in line
\*   blank   : not line.strip()
\*   perapp  : 'Per-app mobile ms per packet' in line
\*   skip    : 'Capacity:' in line or 'Computed drain:' in line
\*   sample  : None, or Some of the base_consumer_regex match
\*             [label, number]; label = [text (stripped), parens, uid] with the
\*             inner matches of lines 61 and 65 (None or Some(name)); number =
\*             [float_ok, value]: float() raises ValueError on text such as
\*             "1.2.3" or ".", which [\d\.]+ matches.
name_to_store(label) ==
    IF label.parens # None THEN label.parens[1]
    ELSE IF label.uid # None THEN label.uid[1]
    ELSE label.text

ends_section_blank_only(line) == line.blank

\* line 49: not line.strip() or 'Per-app mobile ms per packet' in line
ends_section(line) == line.blank \/ line.perapp

RECURSIVE ScanPower(_, _, _, _)
\* the for loop of lines 44-69 from line number i on; ok = FALSE when float()
\* raised
ScanPower(lines, i, in_section, found) ==
    IF i > Len(lines) THEN [ok |-> TRUE, consumers |-> found]
    ELSE LET line == lines[i]
         IN IF line.marker THEN ScanPower(lines, i + 1, TRUE, found)
            ELSE IF ~in_section
                 THEN ScanPower(lines, i + 1, in_section, found)
            ELSE IF ends_section(line)
                 THEN [ok |-> TRUE, consumers |-> found]
            ELSE IF line.skip
                 THEN ScanPower(lines, i + 1, in_section, found)
            ELSE IF line.sample = None
                 THEN ScanPower(lines, i + 1, in_section, found)
            ELSE LET m == line.sample[1]
                 IN IF ~m.number.float_ok
                    THEN [ok |-> FALSE, consumers |-> found]
                    ELSE ScanPower(lines, i + 1, in_section,
                            Append(found, [name |-> name_to_store(m.label),
                                               power_mah |-> m.number.value]))

parse_power_consumers(file) ==
    IF ~file.readable THEN [ok |-> TRUE, consumers |-> <<>>]
    ELSE ScanPower(file.lines, 1, FALSE, <<>>)

\* ---------------------------------------------- process_all_logs, power stage
\* the position of a character in code-point order (Python compares str by
\* code point): the ASCII characters that occur in names, in ASCII order
CodeOrder == <<" ", "*", ".", "/", "0", "1", "2", "3", "4", "5", "6", "7",
               "8", "9", "A", "B", "C", "D", "E", "F", "G", "H", "I", "J",
               "K", "L", "M", "N", "O", "P", "Q", "R", "S", "T", "U", "V",
               "W", "X", "Y", "Z", "_", "a", "b", "c", "d", "e", "f", "g",
               "h", "i", "j", "k", "l", "m", "n", "o", "p", "q", "r", "s",
               "t", "u", "v", "w", "x", "y", "z">>
CodePoint(c) == CHOOSE i \in 1..Len(CodeOrder) : CodeOrder[i] = c

RECURSIVE StrLess(_, _)
\* a < b on str
StrLess(a, b) ==
    IF b = <<>> THEN FALSE
    ELSE IF a = <<>> THEN TRUE
    ELSE IF Head(a) = Head(b) THEN StrLess(Tail(a), Tail(b))
    ELSE CodePoint(Head(a)) < CodePoint(Head(b))

NamesOf(rows) == {rows[i].name : i \in 1..Len(rows)}

PowerOfName(rows, name) ==
    LET ofname(r) == IF r.name = name THEN r.power_mah ELSE 0
    IN SeqSum(rows, ofname)

RECURSIVE ByName(_, _)
\* the rows of a groupby('name') sum: one per name, in ascending name order
ByName(rows, names) ==
    IF names = {} THEN <<>>
    ELSE LET first == CHOOSE a \in names : \A b \in names : a = b \/ StrLess(a, b)
         IN <<[name |-> first, power_mah |-> PowerOfName(rows, first)]>>
              \o ByName(rows, names \ {first})

\* df.groupby('name')['power_mah'].sum().reset_index()
groupby_name_sum(rows) == ByName(rows, NamesOf(rows))

PowerOf(r) == r.power_mah

map_uid_to_name(map, name) ==
    IF startswith_u0a(name) \/ isdigit(name)
    THEN IF name \in DOMAIN map THEN map[name] ELSE SystemOther
    ELSE name

regroup_rename_only(rows) == rows

\* the second groupby('name') sum, line 179
regroup(rows) == groupby_name_sum(rows)

\* total_power_df['name'].apply(map_uid_to_name), line 176
apply_map(map, rows) ==
    [i \in 1..Len(rows) |->
        [name |-> map_uid_to_name(map, rows[i].name), power_mah |-> rows[i].power_mah]]

\* input alphabet of the power stage
Digits1000 == <<"1", "0", "0", "0">>
Android == <<"a", "n", "d", "r", "o", "i", "d">>
UidLabel(u) == [text |-> <<"U", "i", "d", " ">> \o u, parens |-> None, uid |-> Some(u)]
ParensLabel(u, n) == [text |-> <<"U", "i", "d", " ">> \o u, parens |-> Some(n), uid |-> Some(u)]
PowerLabels == {UidLabel(U0A1), UidLabel(U0A2), UidLabel(Digits1000),
                ParensLabel(Digits1000, ComA)}

PlainLine == [marker |-> FALSE, blank |-> FALSE, perapp |-> FALSE, skip |-> FALSE,
              sample |-> None]
MarkerLine == [PlainLine EXCEPT !.marker = TRUE]
BlankLine == [PlainLine EXCEPT !.blank = TRUE]
SampleLine(label, value) ==
    [PlainLine EXCEPT !.sample =
        Some([label |-> label, number |-> [float_ok |-> TRUE, value |-> value]])]
BadNumberLine(label) ==
    [PlainLine EXCEPT !.sample =
        Some([label |-> label, number |-> [float_ok |-> FALSE, value |-> 0]])]

SampleLines == {SampleLine(l, v) : l \in PowerLabels, v \in 1..MaxPower}
                  \cup {BadNumberLine(UidLabel(U0A1))}

\* batterystats.txt: unreadable; without the section marker; or the marker,
\* at most k sample lines and the blank line that ends the section
PowerFiles(k) ==
    {[readable |-> FALSE, lines |-> <<>>],
     [readable |-> TRUE, lines |-> <<BlankLine>>]} \cup
    {[readable |-> TRUE, lines |-> <<MarkerLine>> \o body \o <<BlankLine>>] :
        body \in UNION {[1..n -> SampleLines] : n \in 0..k}}

BatteryFiles == {[readable |-> FALSE, level |-> None],
                 [readable |-> TRUE, level |-> None],
                 [readable |-> TRUE, level |-> Some(100)]}

PowerPackageFiles ==
    {NoPackages, Packages(<<PkgLine(ComA, 10001), PkgLine(Android, 1000)>>)}

InitPower ==
    /\ pc = "start"
    /\ n_dirs \in 0..MaxSnaps
    /\ app_map = EmptyMap
    /\ frames = <<>>
    /\ starts = <<>>
    /\ ends = <<>>
    /\ pos = 0
    /\ wakelock_periods = <<>>
    /\ used_end_indices = {}
    /\ total_longwake_df = <<>>
    /\ battery_df = <<>>
    /\ power_data = <<>>
    /\ total_power_df = <<>>
    /\ raised = None
    /\ time_str = <<>>
    /\ start_time = 0
    /\ delta = None
    /\ current_time = None
    /\ app_wakelocks = <<>>
    /\ combined_df = <<>>
    /\ content = <<>>
    /\ line_no = 0
    /\ in_power_section = FALSE
    /\ consumers = <<>>

\* lines 155-160: no snapshot returns three empty tables; otherwise the package
\* map of the latest snapshot is read
GetLogDirs ==
    /\ pc = "start"
    /\ IF n_dirs = 0
       THEN pc' = "done" /\ UNCHANGED app_map
       ELSE /\ pc' = "battery"
            /\ \E f \in PowerPackageFiles : app_map' = get_package_map_from_log(f)
    /\ UNCHANGED <<n_dirs, frames, starts, ends, pos, wakelock_periods,
                   used_end_indices, total_longwake_df>>
    /\ UNCHANGED <<power_vars, time_vars, report_vars, scan_vars>>

RECURSIVE LevelRows(_, _)
\* the list comprehension of line 162 over the files of snapshots k..n
LevelRows(files, k) ==
    IF k > Len(files) THEN <<>>
    ELSE IF parse_battery_level(files[k]) # None
         THEN <<[timestamp |-> k, level |-> parse_battery_level(files[k])[1]]>>
                 \o LevelRows(files, k + 1)
         ELSE LevelRows(files, k + 1)

\* line 162: pd.DataFrame(rows).set_index('timestamp'); with no row the frame
\* has no column and set_index raises KeyError
BatteryLevels ==
    /\ pc = "battery"
    /\ \E files \in [1..n_dirs -> BatteryFiles] :
          LET rows == LevelRows(files, 1)
          IN IF rows = <<>>
             THEN /\ raised' = Some("KeyError")
                  /\ pc' = "raised"
                  /\ UNCHANGED battery_df
             ELSE /\ battery_df' = rows
                  /\ pc' = "power"
                  /\ UNCHANGED raised
    /\ UNCHANGED <<n_dirs, app_map, frames, starts, ends, pos,
                   wakelock_periods, used_end_indices, total_longwake_df,
                   power_data, total_power_df>>
    /\ UNCHANGED <<time_vars, report_vars, scan_vars>>

\* one iteration of the loop at lines 165-166; a ValueError of float() leaves
\* parse_power_consumers and process_all_logs
ParsePower ==
    /\ pc = "power"
    /\ pos < n_dirs
    /\ \E file \in PowerFiles(MaxSamples - Len(power_data)) :
          LET res == parse_power_consumers(file)
          IN IF res.ok
             THEN /\ power_data' = power_data \o res.consumers
                  /\ pos' = pos + 1
                  /\ UNCHANGED <<pc, raised>>
             ELSE /\ raised' = Some("ValueError")
                  /\ pc' = "raised"
                  /\ UNCHANGED <<power_data, pos>>
    /\ UNCHANGED <<n_dirs, app_map, frames, starts, ends,
                   wakelock_periods, used_end_indices, total_longwake_df,
                   battery_df, total_power_df>>
    /\ UNCHANGED <<time_vars, report_vars, scan_vars>>

\* lines 167-168: groupby sum, sort_values(ascending=False), reset_index
GroupPower ==
    /\ pc = "power"
    /\ pos = n_dirs
    /\ IF power_data = <<>>
       THEN total_power_df' = <<>>
       ELSE total_power_df' \in
               SortedOrders(Range(groupby_name_sum(power_data)), PowerOf, FALSE)
    /\ pc' = "remap"
    /\ UNCHANGED <<n_dirs, app_map, frames, starts, ends, pos,
                   wakelock_periods, used_end_indices, total_longwake_df,
                   battery_df, power_data, raised>>
    /\ UNCHANGED <<time_vars, report_vars, scan_vars>>

\* lines 171-179
Remap ==
    /\ pc = "remap"
    /\ IF total_power_df # <<>> /\ DOMAIN app_map # {}
       THEN total_power_df' = regroup(apply_map(app_map, total_power_df))
       ELSE UNCHANGED total_power_df
    /\ pc' = "history"
    /\ UNCHANGED <<n_dirs, app_map, frames, starts, ends, pos,
                   wakelock_periods, used_end_indices, total_longwake_df,
                   battery_df, power_data, raised>>
    /\ UNCHANGED <<time_vars, report_vars, scan_vars>>

\* line 181 for a batterystats.txt without longwake edges
ParseHistoryNone == ParseHistoryFrom({}, 0)

NextPower ==
    \/ GetLogDirs
    \/ BatteryLevels
    \/ ParsePower
    \/ GroupPower
    \/ Remap
    \/ ParseHistoryNone
    \/ ConcatSort

\* process_all_logs over snapshots whose batterystats.txt hold no longwake edge
SpecPower == InitPower /\ [][NextPower]_vars

\* ------------------------------------- parse_power_consumers, line by line
PerAppLine == [PlainLine EXCEPT !.perapp = TRUE]
CapacityLabel == [text |-> <<"C", "a", "p", "a", "c", "i", "t", "y">>,
                  parens |-> None, uid |-> None]
\* "  Capacity: 1, Computed drain: ..." also matches base_consumer_regex
CapacityLine == [SampleLine(CapacityLabel, 1) EXCEPT !.skip = TRUE]

ScanLines == {PlainLine, MarkerLine, BlankLine, PerAppLine, CapacityLine,
              SampleLine(UidLabel(U0A1), 1), BadNumberLine(UidLabel(U0A1))}

\* batterystats.txt: unreadable, or any text of at most MaxLines lines
ScanFiles ==
    {[readable |-> FALSE, lines |-> <<>>]} \cup
    {[readable |-> TRUE, lines |-> ls] :
        ls \in UNION {[1..n -> ScanLines] : n \in 0..MaxLines}}

InitScan ==
    /\ pc = "read"
    /\ n_dirs = 0
    /\ app_map = EmptyMap
    /\ frames = <<>>
    /\ starts = <<>>
    /\ ends = <<>>
    /\ pos = 0
    /\ wakelock_periods = <<>>
    /\ used_end_indices = {}
    /\ total_longwake_df = <<>>
    /\ battery_df = <<>>
    /\ power_data = <<>>
    /\ total_power_df = <<>>
    /\ raised = None
    /\ time_str = <<>>
    /\ start_time = 0
    /\ delta = None
    /\ current_time = None
    /\ app_wakelocks = <<>>
    /\ combined_df = <<>>
    /\ content = <<>>
    /\ line_no = 0
    /\ in_power_section = FALSE
    /\ consumers = <<>>

\* lines 34-42: read_text; an unreadable file returns []
ReadText ==
    /\ pc = "read"
    /\ \E file \in ScanFiles :
          IF ~file.readable
          THEN /\ pc' = "done"
               /\ UNCHANGED <<content, line_no>>
          ELSE /\ pc' = "scan"
               /\ content' = file.lines
               /\ line_no' = 1
    /\ consumers' = <<>>
    /\ in_power_section' = FALSE
    /\ UNCHANGED <<n_dirs, app_map, frames, starts, ends, pos,
                   wakelock_periods, used_end_indices, total_longwake_df>>
    /\ UNCHANGED <<power_vars, time_vars, report_vars>>

\* one iteration of the loop at lines 44-69; break returns consumers, a
\* ValueError of float() leaves the function
ScanLine ==
    /\ pc = "scan"
    /\ line_no <= Len(content)
    /\ LET line == content[line_no]
           next == /\ line_no' = line_no + 1
                   /\ UNCHANGED <<pc, raised>>
       IN IF line.marker
          THEN /\ in_power_section' = TRUE
               /\ next
               /\ UNCHANGED consumers
          ELSE IF ~in_power_section
          THEN next /\ UNCHANGED <<in_power_section, consumers>>
          ELSE IF ends_section(line)
          THEN /\ pc' = "done"
               /\ UNCHANGED <<line_no, raised, in_power_section, consumers>>
          ELSE IF line.skip
          THEN next /\ UNCHANGED <<in_power_section, consumers>>
          ELSE IF line.sample = None
          THEN next /\ UNCHANGED <<in_power_section, consumers>>
          ELSE LET m == line.sample[1]
               IN IF ~m.number.float_ok
                  THEN /\ raised' = Some("ValueError")
                       /\ pc' = "raised"
                       /\ UNCHANGED <<line_no, in_power_section, consumers>>
                  ELSE /\ consumers' = Append(consumers,
                              [name |-> name_to_store(m.label),
                               power_mah |-> m.number.value])
                       /\ next
                       /\ UNCHANGED in_power_section
    /\ UNCHANGED <<n_dirs, app_map, frames, starts, ends, pos,
                   wakelock_periods, used_end_indices, total_longwake_df,
                   battery_df, power_data, total_power_df, content>>
    /\ UNCHANGED <<time_vars, report_vars>>

\* line 71 after the last line
ScanReturn ==
    /\ pc = "scan"
    /\ line_no > Len(content)
    /\ pc' = "done"
    /\ UNCHANGED <<n_dirs, app_map, frames, starts, ends, pos,
                   wakelock_periods, used_end_indices, total_longwake_df>>
    /\ UNCHANGED <<power_vars, time_vars, report_vars, scan_vars>>

NextScan == ReadText \/ ScanLine \/ ScanReturn

\* parse_power_consumers over one batterystats.txt
SpecScan == InitScan /\ [][NextScan]_vars

\* ------------------------------------------- one line of the history, timed
\* the offset tokens with each unit at most once, in the order h, m, s, ms
UnitOrder == <<"h", "m", "s", "ms">>

RECURSIVE TokenOf(_, _)
\* f[k] is None when unit k is absent from the token, else Some(its value)
TokenOf(f, k) ==
    IF k > Len(UnitOrder) THEN <<>>
    ELSE IF f[k] = None THEN TokenOf(f, k + 1)
    ELSE <<<<f[k][1], UnitOrder[k]>>>> \o TokenOf(f, k + 1)

TimeTokens ==
    {TokenOf(f, 1) :
        f \in [1..Len(UnitOrder) -> {None} \cup {Some(v) : v \in 0..MaxValue}]}
StartTimes == {0, 86400000}

InitTime ==
    /\ pc = "line"
    /\ time_str \in TimeTokens
    /\ start_time \in StartTimes
    /\ delta = None
    /\ current_time = None
    /\ n_dirs = 0
    /\ app_map = EmptyMap
    /\ frames = <<>>
    /\ starts = <<>>
    /\ ends = <<>>
    /\ pos = 0
    /\ wakelock_periods = <<>>
    /\ used_end_indices = {}
    /\ total_longwake_df = <<>>
    /\ battery_df = <<>>
    /\ power_data = <<>>
    /\ total_power_df = <<>>
    /\ raised = None
    /\ app_wakelocks = <<>>
    /\ combined_df = <<>>
    /\ content = <<>>
    /\ line_no = 0
    /\ in_power_section = FALSE
    /\ consumers = <<>>

\* the call parse_time(timestamp_str) of line 115
ParseTime ==
    /\ pc = "line"
    /\ delta' = Some(parse_time(time_str))
    /\ pc' = "parsed"
    /\ UNCHANGED <<time_str, start_time, current_time>>
    /\ UNCHANGED <<n_dirs, app_map, frames, starts, ends, pos,
                   wakelock_periods, used_end_indices, total_longwake_df>>
    /\ UNCHANGED <<power_vars, report_vars, scan_vars>>

\* current_time = start_time + <the timedelta>, line 115
StampEvent ==
    /\ pc = "parsed"
    /\ current_time' = Some(start_time + delta[1])
    /\ pc' = "stamped"
    /\ UNCHANGED <<time_str, start_time, delta>>
    /\ UNCHANGED <<n_dirs, app_map, frames, starts, ends, pos,
                   wakelock_periods, used_end_indices, total_longwake_df>>
    /\ UNCHANGED <<power_vars, report_vars, scan_vars>>

NextTime == ParseTime \/ StampEvent

\* the timestamp of one anchored '+' line of the history
SpecTime == InitTime /\ [][NextTime]_vars

\* ------------------------------------------------ create_report, lines 106-126
Letters == {"a", "b", "c", "d", "e", "f", "g", "h", "i", "j", "k", "l", "m",
            "n", "o", "p", "q", "r", "s", "t", "u", "v", "w", "x", "y", "z",
            "A", "B", "C", "D", "E", "F", "G", "H", "I", "J", "K", "L", "M",
            "N", "O", "P", "Q", "R", "S", "T", "U", "V", "W", "X", "Y", "Z"}
WordChars == Letters \cup DigitChars \cup {"_"}

\* the last index of the longest run of characters of class cls that starts
\* at index i (i - 1 when tag[i] is not in cls)
RunEnd(tag, i, cls) ==
    LET stops == {j \in i..(Len(tag) + 1) : j = Len(tag) + 1 \/ tag[j] \notin cls}
    IN (CHOOSE j \in stops : \A q \in stops : j <= q) - 1

\* re.search(r'([a-zA-Z0-9_]+\.[a-zA-Z0-9_\.]+)', tag): the leftmost index from
\* which a run of word characters is followed by '.' and at least one more
\* character of [a-zA-Z0-9_.]; the match runs to the end of that last run
get_package_name_from_tag(tag) ==
    LET dot(i) == RunEnd(tag, i, WordChars) + 1
        begins == {i \in 1..Len(tag) :
                      /\ tag[i] \in WordChars
                      /\ dot(i) + 1 <= Len(tag)
                      /\ tag[dot(i)] = "."
                      /\ tag[dot(i) + 1] \in WordChars \cup {"."}}
    IN IF begins = {} THEN SystemOther
       ELSE LET i == CHOOSE b \in begins : \A q \in begins : b <= q
            IN SubSeq(tag, i, RunEnd(tag, dot(i) + 1, WordChars \cup {"."}))

DurationOfName(rows, name) ==
    LET ofname(r) == IF r.name = name THEN r.duration_s ELSE 0
    IN SeqSum(rows, ofname)

RECURSIVE NamesAscending(_)
NamesAscending(names) ==
    IF names = {} THEN <<>>
    ELSE LET first == CHOOSE a \in names : \A b \in names : a = b \/ StrLess(a, b)
         IN <<first>> \o NamesAscending(names \ {first})

\* drain_score = power_mah * 0.7 + duration_s * 0.3, times 10000 (duration_s
\* counts milliseconds)
drain_score(power_mah, duration_s) == 7000 * power_mah + 3 * duration_s

ScoreOf(r) == r.drain_score

\* pd.merge(power_df, app_wakelocks, on='name', how='outer').fillna(0); both
\* sides have one row per name
merge_outer(left, right) ==
    LET names == NamesAscending(NamesOf(left) \cup NamesOf(right))
    IN [i \in 1..Len(names) |->
          [name |-> names[i],
           power_mah |-> PowerOfName(left, names[i]),
           duration_s |-> DurationOfName(right, names[i])]]

\* input alphabet of the report
ComB == <<"c", "o", "m", ".", "b">>
TagJob == <<"*", "j", "o", "b", "*", "/">> \o ComA \o <<"/", ".", "S", "v", "c">>
ReportKeys == {<<U0A1, TagJob>>, <<U0A2, ComA>>, <<U0A2, TagNet>>}
ReportNames == {ComA, ComB, SystemOther}
ReportMap == get_package_map_from_log(Packages(<<PkgLine(ComA, 10001)>>))

\* the tables process_all_logs returns: a PowerTotal after the remap (one row
\* per name, in name order) and a WakelockTotal (one row per key, durations
\* descending)
ReportPowerTables ==
    {LET present == {n \in ReportNames : f[n] > 0}
         names == NamesAscending(present)
     IN [i \in 1..Len(names) |-> [name |-> names[i], power_mah |-> f[names[i]]]] :
        f \in [ReportNames -> 0..MaxPower]}

ReportWakeTables ==
    UNION {SortedOrders({[uid |-> k[1], tag |-> k[2], duration_s |-> 1000 * f[k],
                          app_name |-> app_name(ReportMap, k[1])] :
                            k \in {q \in ReportKeys : f[q] > 0}},
                        DurationOf, FALSE) :
           f \in [ReportKeys -> 0..MaxDur]}

InitReport ==
    /\ pc = "report"
    /\ total_power_df \in ReportPowerTables
    /\ total_longwake_df \in ReportWakeTables
    /\ app_wakelocks = <<>>
    /\ combined_df = <<>>
    /\ content = <<>>
    /\ line_no = 0
    /\ in_power_section = FALSE
    /\ consumers = <<>>
    /\ n_dirs = 1
    /\ app_map = ReportMap
    /\ frames = <<>>
    /\ starts = <<>>
    /\ ends = <<>>
    /\ pos = 0
    /\ wakelock_periods = <<>>
    /\ used_end_indices = {}
    /\ battery_df = <<>>
    /\ power_data = <<>>
    /\ raised = None
    /\ time_str = <<>>
    /\ start_time = 0
    /\ delta = None
    /\ current_time = None

\* lines 109-117 and 125-126: without wakelock rows there is no combined
\* table; otherwise the rows get a name from their tag and are summed by name
NameWakelocks ==
    /\ pc = "report"
    /\ IF total_longwake_df # <<>>
       THEN /\ total_longwake_df' =
                  [i \in 1..Len(total_longwake_df) |->
                      [uid |-> total_longwake_df[i].uid,
                       tag |-> total_longwake_df[i].tag,
                       duration_s |-> total_longwake_df[i].duration_s,
                       app_name |-> total_longwake_df[i].app_name,
                       name |-> get_package_name_from_tag(total_longwake_df[i].tag)]]
            /\ app_wakelocks' =
                  LET names == NamesAscending(NamesOf(total_longwake_df'))
                  IN [i \in 1..Len(names) |->
                        [name |-> names[i],
                         duration_s |-> DurationOfName(total_longwake_df', names[i])]]
            /\ pc' = "merge"
            /\ UNCHANGED combined_df
       ELSE /\ combined_df' = <<>>
            /\ pc' = "report_done"
            /\ UNCHANGED <<total_longwake_df, app_wakelocks>>
    /\ UNCHANGED <<n_dirs, app_map, frames, starts, ends, pos,
                   wakelock_periods, used_end_indices>>
    /\ UNCHANGED <<power_vars, time_vars, scan_vars>>

\* lines 119-124
MergeScores ==
    /\ pc = "merge"
    /\ IF total_power_df # <<>>
       THEN LET merged == merge_outer(total_power_df, app_wakelocks)
                scored == {[name |-> r.name, power_mah |-> r.power_mah,
                            duration_s |-> r.duration_s,
                            drain_score |-> drain_score(r.power_mah, r.duration_s)] :
                                r \in Range(merged)}
            IN combined_df' \in SortedOrders(scored, ScoreOf, FALSE)
       ELSE combined_df' = <<>>
    /\ pc' = "report_done"
    /\ UNCHANGED <<n_dirs, app_map, frames, starts, ends, pos,
                   wakelock_periods, used_end_indices, total_longwake_df,
                   app_wakelocks>>
    /\ UNCHANGED <<power_vars, time_vars, scan_vars>>

NextReport == NameWakelocks \/ MergeScores

SpecReport == InitReport /\ [][NextReport]_vars

\* ===================================================== wakelock correlation
SameKey(a, b) == a.uid = b.uid /\ a.tag = b.tag
Periods == Range(wakelock_periods)
\* the rows of the sorted event table
Events == Range(starts) \cup Range(ends)
CountSeq(s, P(_)) == Cardinality({i \in 1..Len(s) : P(s[i])})

\* the Ends a Start could still take when period number i was formed: same
\* key, strictly later, not the End of an earlier period
AvailableEnds(i) ==
    LET p == wakelock_periods[i]
        claimed == {wakelock_periods[j].end_event : j \in 1..(i - 1)}
    IN {e \in Range(ends) : /\ SameKey(e, p.start_event)
                            /\ e.timestamp > p.start_event.timestamp
                            /\ e \notin claimed}

\* the series is +k at t1, +k at t2, -k at t3, -k at t4, t1 < t2 < t3 < t4
TwoStartsTwoEnds ==
    /\ Len(starts) = 2 /\ Len(ends) = 2
    /\ \A e \in Events : SameKey(e, starts[1])
    /\ starts[1].timestamp < starts[2].timestamp
    /\ starts[2].timestamp < ends[1].timestamp
    /\ ends[1].timestamp < ends[2].timestamp

\* C1: Starts are processed in non-decreasing timestamp order; each matched
\* Start is paired with the earliest End of its key that is strictly later and
\* not yet claimed; and for +k t1, +k t2, -k t3, -k t4 the emitted pairs are
\* (t1,t3) and (t2,t4).
C1_GreedyEarliestEnd ==
    /\ \A i \in 1..(Len(starts) - 1) : starts[i].timestamp <= starts[i + 1].timestamp
    /\ \A i \in 1..Len(wakelock_periods) :
          /\ wakelock_periods[i].end_event \in AvailableEnds(i)
          /\ \A e \in AvailableEnds(i) :
                wakelock_periods[i].end_event.timestamp <= e.timestamp
    /\ (pc = "done" /\ TwoStartsTwoEnds) =>
          {<<p.start_event, p.end_event>> : p \in Periods}
             = {<<starts[1], ends[1]>>, <<starts[2], ends[2]>>}

\* C2: every emitted interval pairs a Start and an End of the same (uid, tag),
\* its End is strictly later than its Start, and its duration is exactly
\* end - start, so it is positive.
C2_IntervalWellFormed ==
    \A p \in Periods :
        /\ p.start_event.status = "start" /\ p.end_event.status = "end"
        /\ p.start_event \in Range(starts) /\ p.end_event \in Range(ends)
        /\ SameKey(p.start_event, p.end_event)
        /\ p.uid = p.start_event.uid /\ p.tag = p.start_event.tag
        /\ p.end_event.timestamp > p.start_event.timestamp
        /\ p.duration_s = p.end_event.timestamp - p.start_event.timestamp
        /\ p.duration_s > 0

\* an interval was emitted although an End of the same key sits at the very
\* timestamp of its Start
C2_Witness ==
    \E p \in Periods : \E e \in Range(ends) :
        SameKey(e, p.start_event) /\ e.timestamp = p.start_event.timestamp

\* C10: no End-edge is in two emitted intervals and no Start-edge is in two;
\* per key the number of intervals is at most min(#Starts, #Ends); an End-edge
\* without a strictly earlier Start of its key is in no interval.
C10_EndClaimedOnce ==
    /\ \A i, j \in 1..Len(wakelock_periods) :
          i < j => /\ wakelock_periods[i].end_event # wakelock_periods[j].end_event
                   /\ wakelock_periods[i].start_event # wakelock_periods[j].start_event
    /\ \A p \in Periods :
          LET ofk(r) == SameKey(r, p)
              n == CountSeq(wakelock_periods, ofk)
          IN /\ n <= CountSeq(starts, ofk) /\ n <= CountSeq(ends, ofk)
             /\ \E i \in 1..Len(starts) :
                   /\ SameKey(starts[i], p.end_event)
                   /\ starts[i].timestamp < p.end_event.timestamp

\* the run is over, an interval was emitted, and a Start that was left
\* unmatched is earlier than the End of an emitted interval of its key
C10_Witness ==
    /\ pc = "done"
    /\ \E p \in Periods : \E st \in Range(starts) :
          /\ \A q \in Periods : q.start_event # st
          /\ SameKey(st, p.end_event)
          /\ st.timestamp < p.end_event.timestamp

\* the Ends paired with a Start that was processed before starts[i]
ClaimedBefore(i) ==
    {p.end_event : p \in {q \in Periods :
        \E j \in 1..(i - 1) : starts[j] = q.start_event}}

\* starts[i] has been processed and no interval was emitted for it
Dropped(i) ==
    /\ pc \in {"match", "done"}
    /\ i < pos
    /\ \A p \in Periods : p.start_event # starts[i]

\* C11: a processed Start without interval had no End of its key that is
\* strictly later and not paired with an earlier Start; and an End is
\* unavailable only when it is itself the End of an emitted interval.
C11_DroppedOnlyWithoutEnd ==
    /\ \A i \in 1..Len(starts) :
          Dropped(i) =>
              \A k \in 1..Len(ends) :
                  ~ /\ SameKey(ends[k], starts[i])
                    /\ ends[k].timestamp > starts[i].timestamp
                    /\ ends[k] \notin ClaimedBefore(i)
    /\ \A k \in 1..Len(ends) :
          ends[k].name \in used_end_indices =>
              \E p \in Periods : p.end_event = ends[k]

\* the rows of s that came from snapshot k, in the order of s
SnapshotRows(s, k) ==
    LET RECURSIVE go(_)
        go(i) == IF i > Len(s) THEN <<>>
                 ELSE IF s[i].src = k THEN <<s[i]>> \o go(i + 1)
                 ELSE go(i + 1)
    IN go(1)

RECURSIVE CorrelateFrom(_, _, _, _)
\* the intervals of the loop of lines 192-199 run over the Starts sts from
\* position i on and the Ends es
CorrelateFrom(sts, es, i, used) ==
    IF i > Len(sts) THEN <<>>
    ELSE LET cands == potential_ends(es, sts[i], used)
         IN IF cands # <<>>
            THEN <<[uid |-> sts[i].uid, tag |-> sts[i].tag,
                    duration_s |-> cands[1].timestamp - sts[i].timestamp]>>
                    \o CorrelateFrom(sts, es, i + 1, add_used(used, cands[1]))
            ELSE CorrelateFrom(sts, es, i + 1, used)

\* the intervals of snapshot k correlated on its own
CorrelateAlone(k) ==
    CorrelateFrom(SnapshotRows(starts, k), SnapshotRows(ends, k), 1, {})

TotalOfKey(key) ==
    LET ofkey(r) == IF <<r.uid, r.tag>> = key THEN r.duration_s ELSE 0
    IN SeqSum(total_longwake_df, ofkey)

\* C3: no emitted interval pairs a Start of one snapshot with an End of
\* another, and the returned WakelockTotal is, per key, the sum of the totals
\* of each snapshot correlated on its own.
C3_SnapshotLocal ==
    /\ \A p \in Periods : p.start_event.src = p.end_event.src
    /\ pc = "done" =>
          \A e \in Events :
              LET key == <<e.uid, e.tag>>
                  alone(k) == GroupSum(CorrelateAlone(k), key)
                  RECURSIVE sum(_)
                  sum(k) == IF k = 0 THEN 0 ELSE sum(k - 1) + alone(k)
              IN TotalOfKey(key) = sum(n_dirs)

\* ============================================================== power totals
PowerSum(rows) == SeqSum(rows, PowerOf)
AfterRemap == pc \in {"history", "done"} /\ n_dirs > 0

IsOwnerId(name) == startswith_u0a(name) \/ isdigit(name)
DisplayNames == {app_map[k] : k \in DOMAIN app_map}

\* C5: for every IdentityMap, the empty one included, the returned PowerTotal
\* has no key that looks like a raw owner-id unless it is a display name of
\* the map: its keys are the mapped names of the raw keys ("System/Other" for
\* an owner-id without entry, the key itself for any other key).
C5_NoRawOwnerIds ==
    (pc = "done" /\ n_dirs > 0) =>
        /\ \A i \in 1..Len(total_power_df) :
              IsOwnerId(total_power_df[i].name) => total_power_df[i].name \in DisplayNames
        /\ NamesOf(total_power_df) =
              {map_uid_to_name(app_map, sm.name) : sm \in Range(power_data)}

\* C7: no snapshot failure aborts the run: process_all_logs never raises, and
\* for an empty series it returns three empty tables.
C7_NoAbort ==
    /\ raised = None
    /\ pc # "raised"
    /\ (pc = "done" /\ n_dirs = 0) =>
          battery_df = <<>> /\ total_power_df = <<>> /\ total_longwake_df = <<>>

\* C9: the returned PowerTotal rows are in non-increasing order of power and
\* the returned WakelockTotal rows in non-increasing order of duration.
C9_SortedDescending ==
    pc = "done" =>
        /\ \A i \in 1..(Len(total_power_df) - 1) :
              total_power_df[i].power_mah >= total_power_df[i + 1].power_mah
        /\ \A i \in 1..(Len(total_longwake_df) - 1) :
              total_longwake_df[i].duration_s >= total_longwake_df[i + 1].duration_s


\* ============================================================ section scan
IsMarker(i) == content[i].marker
IsTerminator(i) == content[i].blank \/ content[i].perapp

\* the first marker line is before line i and no terminator lies after that
\* marker up to and including line i
InsideSection(i) ==
    \E f \in 1..(i - 1) :
        /\ IsMarker(f)
        /\ \A g \in 1..(f - 1) : ~IsMarker(g)
        /\ \A j \in (f + 1)..i : ~IsTerminator(j)

\* line i is a label: number line of the section that is no marker and has
\* neither "Capacity:" nor "Computed drain:"
Yields(i) ==
    /\ InsideSection(i)
    /\ ~IsMarker(i)
    /\ ~content[i].skip
    /\ content[i].sample # None

RECURSIVE SamplesUpTo(_)
\* the samples of the yielding lines among lines 1..n, in line order
SamplesUpTo(n) ==
    IF n = 0 THEN <<>>
    ELSE IF Yields(n)
         THEN Append(SamplesUpTo(n - 1),
                     [name |-> name_to_store(content[n].sample[1].label),
                      power_mah |-> content[n].sample[1].number.value])
         ELSE SamplesUpTo(n - 1)

\* C12: the samples are exactly those of the label: number lines strictly
\* after the first marker line and strictly before the first terminator (a
\* blank line or a "Per-app mobile ms per packet" line) that follows it;
\* "Capacity:" / "Computed drain:" lines and non-matching lines give no sample
\* and do not end the section; after the terminator no line gives a sample,
\* a later marker line included.
C12_SectionScan ==
    /\ pc \in {"scan", "raised"} => consumers = SamplesUpTo(line_no - 1)
    /\ pc = "done" => consumers = SamplesUpTo(Len(content))
    /\ pc = "scan" => (in_power_section <=> \E f \in 1..(line_no - 1) : IsMarker(f))

\* the scan has returned one sample from a text with the marker, then a
\* "Capacity:" line, then a sample line, then a terminator, then one more
\* sample line
C12_Witness ==
    /\ pc = "done"
    /\ Len(consumers) = 1
    /\ \E f, c, a, t, b \in 1..Len(content) :
          /\ f < c /\ c < a /\ a < t /\ t < b
          /\ IsMarker(f) /\ content[c].skip /\ Yields(a)
          /\ IsTerminator(t)
          /\ content[b].sample # None /\ ~content[b].skip

\* ============================================================ offset parsing
UnitMs(u) == CASE u = "h" -> 3600000 [] u = "m" -> 60000 [] u = "s" -> 1000
               [] OTHER -> 1
PartMs(part) == part[1] * UnitMs(part[2])
ExactOffset(tok) == SeqSum(tok, PartMs)

\* C8: parse_time returns exactly h hours + m minutes + s seconds + ms
\* milliseconds of the parts of the token, absent units counting 0, and the
\* event timestamp is start_time plus that offset.
C8_ExactOffset ==
    /\ pc \in {"parsed", "stamped"} => delta = Some(ExactOffset(time_str))
    /\ pc = "stamped" => current_time = Some(start_time + ExactOffset(time_str))

\* ============================================================== drain score
ReportedNames ==
    NamesOf(total_power_df)
       \cup {get_package_name_from_tag(r.tag) : r \in Range(total_longwake_df)}
WakeSecondsOf(name) ==
    LET ofname(r) == IF get_package_name_from_tag(r.tag) = name THEN r.duration_s ELSE 0
    IN SeqSum(total_longwake_df, ofname)

\* C6: every name present in the PowerTotal or in the WakelockTotal has
\* exactly one row in the combined table, with the missing side 0 and
\* score = 0.7*power + 0.3*wakelock seconds, also when one total is empty.
C6_OuterUnion ==
    pc = "report_done" =>
        \A name \in ReportedNames :
            /\ Cardinality({i \in 1..Len(combined_df) : combined_df[i].name = name}) = 1
            /\ \A i \in 1..Len(combined_df) :
                  combined_df[i].name = name =>
                     /\ combined_df[i].power_mah = PowerOfName(total_power_df, name)
                     /\ combined_df[i].duration_s = WakeSecondsOf(name)
                     /\ combined_df[i].drain_score =
                           drain_score(PowerOfName(total_power_df, name), WakeSecondsOf(name))

====
